---- MODULE Spec2Model ----
(***************************************************************************)
(* paper-digest: the seen-paper ledger (src/src/history_manager.py) and    *)
(* the pipeline that drives it (src/main.py).                              *)
(*                                                                         *)
(* Three specifications share the operators:                               *)
(*   LedgerSpec  one HistoryManager object driven by arbitrary client      *)
(*               calls, with process restarts in between;                  *)
(*   Spec        serialized runs of main() over one ledger file;           *)
(*   FnSpec      single calls of filter_by_date, of the selection          *)
(*               pipeline and of get_arxiv_query on drawn arguments.       *)
(***************************************************************************)
EXTENDS Integers, Sequences, FiniteSets, TLC

\* ------------------------------------------------------------------ bounds
\* The wall clock runs over 0..MaxTime, in days.
MaxTime == 3
\* The positive history_retention_days the configuration may hold.
RetentionDays == 1
\* Longest list a client passes to filter_unseen / mark_multiple_seen.
MaxLen == 2
\* Longest list the arXiv fetch returns in a pipeline run.
MaxFetch == 2
\* selection.days_recent of the configuration.
DaysRecent == 2

Ids == {"a", "b"}
Titles == {"T1", "T2"}

VARIABLES
    history_file,    \* content of the ledger file on disk
    data,            \* HistoryManager.data of the live process
    retention_days,  \* HistoryManager.retention_days
    now,             \* the wall clock, datetime.now()
    pc,              \* position of the live process ("idle": none is running)
    lastOp,          \* record of the last ledger call and how it ended
    papers,          \* main: result of fetcher.fetch_recent
    unseen_papers,   \* main: result of history.filter_unseen
    selected_ids,    \* main: ids the agent reported
    dry_run,         \* main: args.dry_run
    exit_code,       \* status of the last finished run (-1: none yet)
    run_cleanup_at,  \* clock read by this run's cleanup_old_entries
    loaded,          \* ledger as this run's HistoryManager loaded it
    handed_at,       \* id -> clock of the last run that handed it to the agent
    prev_marked,     \* ids the previous run marked seen and persisted
    this_run,        \* what the run in progress met: file at start, outcomes
    call             \* one call of a function of the fetcher or the configuration

mainVars == <<papers, unseen_papers, selected_ids, dry_run, exit_code,
              run_cleanup_at, loaded, handed_at, prev_marked, this_run>>
vars == <<history_file, data, retention_days, now, pc, lastOp,
          papers, unseen_papers, selected_ids, dry_run, exit_code,
          run_cleanup_at, loaded, handed_at, prev_marked, this_run, call>>

\* ------------------------------------------------------- timestamps as text
\* A timestamp string is the ISO rendering of an instant ("iso"), some other
\* text ("bad"), or absent from its record ("missing"); "none" is JSON null.
IsoFormat(t) == [kind |-> "iso", t |-> t]
BadStamp == [kind |-> "bad", t |-> 0]
MissingStamp == [kind |-> "missing", t |-> 0]
NoneStamp == [kind |-> "none", t |-> 0]

\* An ISO rendering without UTC offset, as in "2024-01-15T12:34:56".
NaiveStamp(t) == [kind |-> "naive", t |-> t]

\* datetime.fromisoformat(info["seen_at"]): the instant, or the exception.
FromIsoFormat(s) ==
    CASE s.kind = "iso" -> [raised |-> "", t |-> s.t]
      [] s.kind = "missing" -> [raised |-> "KeyError", t |-> 0]
      [] OTHER -> [raised |-> "ValueError", t |-> 0]

\* --------------------------------------------------------------- the ledger
NoEntry == [title |-> "", seen_at |-> NoneStamp]
EmptyPapers == [i \in {} |-> NoEntry]
Put(f, k, v) == [i \in (DOMAIN f) \cup {k} |-> IF i = k THEN v ELSE f[i]]
Without(f, S) == [i \in (DOMAIN f) \ S |-> f[i]]

\* {"papers": {}, "last_updated": None}
EmptyLedger == [kind |-> "ledger", papers |-> EmptyPapers, last_updated |-> NoneStamp]

\* File contents: no file, text that is not JSON (also what an interrupted
\* write leaves), JSON without the "papers" mapping, or a ledger.
MissingFile == [kind |-> "missing", papers |-> EmptyPapers, last_updated |-> NoneStamp]
TornFile == [kind |-> "garbage", papers |-> EmptyPapers, last_updated |-> NoneStamp]
NoMapFile == [kind |-> "nomap", papers |-> EmptyPapers, last_updated |-> NoneStamp]

\* json.dump(self.data, f) and json.load(f) on what it wrote.
JsonDump(d) == [kind |-> d.kind, papers |-> d.papers, last_updated |-> d.last_updated]
JsonLoad(f) == [kind |-> f.kind, papers |-> f.papers, last_updated |-> f.last_updated]

\* _load that starts every process from the empty ledger.
LoadEmpty(f) == EmptyLedger

\* HistoryManager._load
Load(f) ==
    IF f.kind \in {"ledger", "nomap"} THEN JsonLoad(f) ELSE EmptyLedger

\* self.data["papers"] raises KeyError unless the loaded JSON has the mapping.
HasPapers(d) == d.kind = "ledger"

\* HistoryManager.is_seen
is_seen(d, id) == id \in DOMAIN d.papers

\* filter_unseen building its result back to front.
RECURSIVE filter_unseen_reversed(_, _)
filter_unseen_reversed(d, ps) ==
    IF ps = <<>> THEN <<>>
    ELSE IF is_seen(d, Head(ps).arxiv_id)
         THEN filter_unseen_reversed(d, Tail(ps))
         ELSE filter_unseen_reversed(d, Tail(ps)) \o <<Head(ps)>>

\* HistoryManager.filter_unseen: [p for p in papers if not self.is_seen(p.arxiv_id)]
RECURSIVE filter_unseen(_, _)
filter_unseen(d, ps) ==
    IF ps = <<>> THEN <<>>
    ELSE IF is_seen(d, Head(ps).arxiv_id)
         THEN filter_unseen(d, Tail(ps))
         ELSE <<Head(ps)>> \o filter_unseen(d, Tail(ps))

\* How HistoryManager._save ends: completes; open() raises; the write raises
\* after open() truncated the file; the process is killed before open() or
\* between the truncation and the end of the write.
SaveOutcomes == {"ok", "open_error", "write_error", "kill_before_open", "kill_mid_write"}

\* _save with its body in try / except OSError: pass.
SaveRaisedSwallowed(o) ==
    IF o \in {"kill_before_open", "kill_mid_write"} THEN "killed" ELSE ""

\* What the caller of _save gets: nothing, the OSError of open() or of the
\* write, or the end of the process.
SaveRaised(o) ==
    CASE o = "ok" -> ""
      [] o \in {"open_error", "write_error"} -> "OSError"
      [] OTHER -> "killed"

\* HistoryManager._save: [data, file] after the call ended as o.
_save(d, f, t, o) ==
    LET d2 == [d EXCEPT !.last_updated = IsoFormat(t)]
    IN [data |-> d2,
        file |-> CASE o = "ok" -> JsonDump(d2)
                   [] o \in {"write_error", "kill_mid_write"} -> TornFile
                   [] OTHER -> f]

\* mark_seen that leaves an entry already present as it is (setdefault).
mark_seen_data_keep(d, id, title, t) ==
    IF id \in DOMAIN d.papers THEN d
    ELSE [d EXCEPT !.papers = Put(d.papers, id, [title |-> title, seen_at |-> IsoFormat(t)])]

\* HistoryManager.mark_seen, the in-memory part.
mark_seen_data(d, id, title, t) ==
    [d EXCEPT !.papers = Put(d.papers, id, [title |-> title, seen_at |-> IsoFormat(t)])]

\* HistoryManager.mark_multiple_seen, the loop: entries with an empty id are
\* skipped, later entries overwrite earlier ones.
RECURSIVE mark_multiple_data(_, _, _)
mark_multiple_data(d, batch, t) ==
    IF batch = <<>> THEN d
    ELSE LET p == Head(batch)
             d2 == IF p.arxiv_id # ""
                   THEN mark_seen_data(d, p.arxiv_id, p.title, t)
                   ELSE d
         IN mark_multiple_data(d2, Tail(batch), t)

\* mark_multiple_seen with self._save() inside the loop body.
mark_multiple_saves_each(batch) == Len(batch)

\* Number of _save calls mark_multiple_seen makes for a batch.
mark_multiple_saves(batch) == 1

\* True when the loop of mark_multiple_seen touches self.data["papers"].
TouchesPapers(batch) == \E i \in 1..Len(batch) : batch[i].arxiv_id # ""

\* to_remove with the comparison seen_at <= cutoff.
to_remove_inclusive(d, t, r) ==
    {id \in DOMAIN d.papers :
        LET s == FromIsoFormat(d.papers[id].seen_at)
        IN s.raised = "" /\ s.t <= t - r}

\* to_remove that also collects the entries whose seen_at does not parse.
to_remove_unparsable(d, t, r) ==
    {id \in DOMAIN d.papers :
        LET s == FromIsoFormat(d.papers[id].seen_at)
        IN s.raised # "" \/ s.t < t - r}

\* HistoryManager.cleanup_old_entries: the ids collected in to_remove.
to_remove(d, t, r) ==
    {id \in DOMAIN d.papers :
        LET s == FromIsoFormat(d.papers[id].seen_at)
        IN s.raised = "" /\ s.t < t - r}

\* HistoryManager.mark_seen: what the call leaves and how it ended as _save
\* ended as o. raised = "" is a normal return.
mark_seen(d, f, id, title, t, o) ==
    IF ~HasPapers(d)
    THEN [data |-> d, file |-> f, raised |-> "KeyError", ret |-> 0, saves |-> 0]
    ELSE LET s == _save(mark_seen_data(d, id, title, t), f, t, o)
         IN [data |-> s.data, file |-> s.file, raised |-> SaveRaised(o),
             ret |-> 0, saves |-> 1]

\* HistoryManager.mark_multiple_seen
mark_multiple_seen(d, f, batch, t, o) ==
    IF TouchesPapers(batch) /\ ~HasPapers(d)
    THEN [data |-> d, file |-> f, raised |-> "KeyError", ret |-> 0, saves |-> 0]
    ELSE LET s == _save(mark_multiple_data(d, batch, t), f, t, o)
         IN [data |-> s.data, file |-> s.file, raised |-> SaveRaised(o),
             ret |-> 0, saves |-> mark_multiple_saves(batch)]

\* cleanup_old_entries that calls _save whether or not it removed anything.
cleanup_old_entries_always_saves(d, f, t, r, o) ==
    IF r <= 0
    THEN [data |-> d, file |-> f, raised |-> "", ret |-> 0, saves |-> 0]
    ELSE IF ~HasPapers(d)
    THEN [data |-> d, file |-> f, raised |-> "KeyError", ret |-> 0, saves |-> 0]
    ELSE LET rm == to_remove(d, t, r)
             d1 == [d EXCEPT !.papers = Without(d.papers, rm)]
             s == _save(d1, f, t, o)
         IN [data |-> s.data, file |-> s.file, raised |-> SaveRaised(o),
             ret |-> Cardinality(rm), saves |-> 1]

\* HistoryManager.cleanup_old_entries; ret is the returned count.
cleanup_old_entries(d, f, t, r, o) ==
    IF r <= 0
    THEN [data |-> d, file |-> f, raised |-> "", ret |-> 0, saves |-> 0]
    ELSE IF ~HasPapers(d)
    THEN [data |-> d, file |-> f, raised |-> "KeyError", ret |-> 0, saves |-> 0]
    ELSE LET rm == to_remove(d, t, r)
             d1 == [d EXCEPT !.papers = Without(d.papers, rm)]
         IN IF rm = {}
            THEN [data |-> d1, file |-> f, raised |-> "", ret |-> 0, saves |-> 0]
            ELSE LET s == _save(d1, f, t, o)
                 IN [data |-> s.data, file |-> s.file, raised |-> SaveRaised(o),
                     ret |-> Cardinality(rm), saves |-> 1]

\* ------------------------------------------------------ record of a call
NoOp ==
    [op |-> "none", id |-> "", title |-> "", batch |-> <<>>, input |-> <<>>,
     result |-> <<>>, ret |-> 0, raised |-> "", saves |-> 0,
     dataBefore |-> EmptyLedger, fileBefore |-> MissingFile, at |-> 0]

\* The call op made now on the current object, with its arguments and outcome.
Call(op, id, title, batch, input, result, ret, raised, saves) ==
    [op |-> op, id |-> id, title |-> title, batch |-> batch, input |-> input,
     result |-> result, ret |-> ret, raised |-> raised, saves |-> saves,
     dataBefore |-> data, fileBefore |-> history_file, at |-> now]

\* The caller is main(), which catches no exception of the ledger: a call that
\* raises ends the process as a kill does, and the object is gone.
AfterCall(raised, d) == IF raised = "" THEN d ELSE EmptyLedger
PcAfterCall(raised) == IF raised = "" THEN "ready" ELSE "idle"

\* ------------------------------------------------------------- inputs
\* A Paper as far as the ledger reads it (arxiv_id, title) plus published.
Paper(id, title, pub) == [arxiv_id |-> id, title |-> title, published |-> pub]
\* The catalog: paper "a", titled T1, was published on day 0; paper "b",
\* titled T2, carries a published date that does not parse.
TitleOf(id) == IF id = "a" THEN "T1" ELSE "T2"
PublishedOf(id) == IF id = "a" THEN IsoFormat(0) ELSE BadStamp

IdsOf(ps) == {ps[i].arxiv_id : i \in 1..Len(ps)}
SeqsUpTo(S, n) == UNION {[1..k -> S] : k \in 0..n}

\* Lists handed to filter_unseen.
ClientPapers == SeqsUpTo({Paper(id, TitleOf(id), PublishedOf(id)) : id \in Ids}, MaxLen + 1)
\* Lists handed to mark_multiple_seen: dicts with 'arxiv_id' and 'title'.
\* the catalog's entries, an entry without id, and paper "a" under another title.
BatchEntries ==
    {[arxiv_id |-> id, title |-> TitleOf(id)] : id \in Ids \cup {""}}
        \cup {[arxiv_id |-> "a", title |-> "T2"]}
ClientBatches == SeqsUpTo(BatchEntries, MaxLen)

LedgerFile(ps, lu) == [kind |-> "ledger", papers |-> ps, last_updated |-> lu]
Entry(title, s) == [title |-> title, seen_at |-> s]

\* Ledger files found at start: none, not JSON, JSON without "papers", a
\* ledger an earlier run wrote, a ledger edited by hand.
InitFiles ==
    {MissingFile, TornFile, NoMapFile,
     LedgerFile(Put(EmptyPapers, "a", Entry("T1", IsoFormat(0))), IsoFormat(0)),
     LedgerFile(Put(Put(EmptyPapers, "a", Entry("T1", BadStamp)),
                    "b", Entry("T2", MissingStamp)), IsoFormat(0))}

RetentionChoices == {0 - 1, 0, RetentionDays}

\* No run in progress: nothing read, fetched, launched or saved yet.
NoRun ==
    [started |-> FALSE, file_at_start |-> MissingFile, fetch |-> "none", agent |-> "none",
     report |-> [kind |-> "missing", ids |-> <<>>], save |-> "none", saves |-> 0]

\* No call of a fetcher or configuration function is under way.
NoCall ==
    [op |-> "none", state |-> "none", papers |-> <<>>, days |-> 0,
     categories |-> <<>>, keywords |-> <<>>, result |-> <<>>, raised |-> ""]

MainIdle ==
    /\ papers = <<>>
    /\ unseen_papers = <<>>
    /\ selected_ids = <<>>
    /\ dry_run = FALSE
    /\ exit_code = 0 - 1
    /\ run_cleanup_at = 0
    /\ loaded = EmptyLedger
    /\ handed_at = [i \in Ids |-> 0 - 1]
    /\ prev_marked = {}
    /\ this_run = NoRun

\* ------------------------------------------- LedgerSpec: the object's API
LedgerInit ==
    /\ history_file \in InitFiles
    /\ data = EmptyLedger
    /\ retention_days = 0
    /\ now = 0
    /\ pc = "idle"
    /\ lastOp = NoOp
    /\ MainIdle
    /\ call = NoCall

\* HistoryManager(history_file, retention_days) in a fresh process.
Construct ==
    /\ pc = "idle"
    /\ lastOp = NoOp
    /\ \E r \in RetentionChoices :
        /\ retention_days' = r
        /\ data' = Load(history_file)
        /\ lastOp' = Call("construct", "", "", <<>>, <<>>, <<>>, 0, "", 0)
    /\ pc' = "ready"
    /\ UNCHANGED <<history_file, now>>
    /\ UNCHANGED <<mainVars, call>>

ApiIsSeen ==
    /\ pc = "ready"
    /\ lastOp = NoOp
    /\ \E id \in Ids :
        lastOp' = IF HasPapers(data)
                  THEN Call("is_seen", id, "", <<>>, <<>>, <<>>,
                            IF is_seen(data, id) THEN 1 ELSE 0, "", 0)
                  ELSE Call("is_seen", id, "", <<>>, <<>>, <<>>, 0, "KeyError", 0)
    /\ data' = AfterCall(lastOp'.raised, data)
    /\ pc' = PcAfterCall(lastOp'.raised)
    /\ UNCHANGED <<history_file, retention_days, now>>
    /\ UNCHANGED <<mainVars, call>>

ApiMarkSeen ==
    /\ pc = "ready"
    /\ lastOp = NoOp
    /\ \E id \in Ids, title \in Titles, o \in SaveOutcomes :
        LET r == mark_seen(data, history_file, id, title, now, o)
        IN /\ (r.saves = 0 => o = "ok")
           /\ data' = AfterCall(r.raised, r.data)
           /\ history_file' = r.file
           /\ pc' = PcAfterCall(r.raised)
           /\ lastOp' = Call("mark_seen", id, title, <<>>, <<>>, <<>>, 0, r.raised, r.saves)
    /\ UNCHANGED <<retention_days, now>>
    /\ UNCHANGED <<mainVars, call>>

ApiMarkMultipleSeen ==
    /\ pc = "ready"
    /\ lastOp = NoOp
    /\ \E batch \in ClientBatches, o \in SaveOutcomes :
        LET r == mark_multiple_seen(data, history_file, batch, now, o)
        IN /\ (r.saves = 0 => o = "ok")
           /\ data' = AfterCall(r.raised, r.data)
           /\ history_file' = r.file
           /\ pc' = PcAfterCall(r.raised)
           /\ lastOp' = Call("mark_multiple_seen", "", "", batch, <<>>, <<>>, 0,
                             r.raised, r.saves)
    /\ UNCHANGED <<retention_days, now>>
    /\ UNCHANGED <<mainVars, call>>

ApiFilterUnseen ==
    /\ pc = "ready"
    /\ lastOp = NoOp
    /\ \E ps \in ClientPapers :
        lastOp' = IF ps # <<>> /\ ~HasPapers(data)
                  THEN Call("filter_unseen", "", "", <<>>, ps, <<>>, 0, "KeyError", 0)
                  ELSE Call("filter_unseen", "", "", <<>>, ps,
                            filter_unseen(data, ps), 0, "", 0)
    /\ data' = AfterCall(lastOp'.raised, data)
    /\ pc' = PcAfterCall(lastOp'.raised)
    /\ UNCHANGED <<history_file, retention_days, now>>
    /\ UNCHANGED <<mainVars, call>>

ApiCleanup ==
    /\ pc = "ready"
    /\ lastOp = NoOp
    /\ \E o \in SaveOutcomes :
        LET r == cleanup_old_entries(data, history_file, now, retention_days, o)
        IN /\ (r.saves = 0 => o = "ok")
           /\ data' = AfterCall(r.raised, r.data)
           /\ history_file' = r.file
           /\ pc' = PcAfterCall(r.raised)
           /\ lastOp' = Call("cleanup_old_entries", "", "", <<>>, <<>>, <<>>, r.ret,
                             r.raised, r.saves)
    /\ UNCHANGED <<retention_days, now>>
    /\ UNCHANGED <<mainVars, call>>

\* The process ends; the object is gone, the file stays.
ProcessExit ==
    /\ pc = "ready"
    /\ lastOp = NoOp
    /\ pc' = "idle"
    /\ data' = EmptyLedger
    /\ UNCHANGED <<history_file, retention_days, now, lastOp>>
    /\ UNCHANGED <<mainVars, call>>

\* The caller takes the outcome of the call and goes on.
Resume ==
    /\ lastOp # NoOp
    /\ lastOp' = NoOp
    /\ UNCHANGED <<history_file, data, retention_days, now, pc>>
    /\ UNCHANGED <<mainVars, call>>

\* A day passes: between runs, between calls, while the fetch or the agent runs.
Tick ==
    /\ now < MaxTime
    /\ lastOp = NoOp
    /\ pc \in {"idle", "ready", "cleaned", "agent"}
    /\ now' = now + 1
    /\ UNCHANGED <<history_file, data, retention_days, pc, lastOp>>
    /\ UNCHANGED <<mainVars, call>>

LedgerNext ==
    \/ Construct
    \/ ApiIsSeen
    \/ ApiMarkSeen
    \/ ApiMarkMultipleSeen
    \/ ApiFilterUnseen
    \/ ApiCleanup
    \/ ProcessExit
    \/ Resume
    \/ Tick

LedgerSpec == LedgerInit /\ [][LedgerNext]_vars

\* ------------------------------------------------ Spec: runs of main()
\* datetime.fromisoformat(paper.published.replace("Z", "+00:00")): an instant
\* with its offset, a datetime without offset, or the exception (None has no
\* replace; other text does not parse).
ParsePublished(s) ==
    CASE s.kind = "iso" -> [raised |-> "", aware |-> TRUE, t |-> s.t]
      [] s.kind = "naive" -> [raised |-> "", aware |-> FALSE, t |-> s.t]
      [] s.kind = "none" -> [raised |-> "AttributeError", aware |-> FALSE, t |-> 0]
      [] OTHER -> [raised |-> "ValueError", aware |-> FALSE, t |-> 0]

\* filter_by_date, the loop: a paper stays when parsing raises ValueError or
\* AttributeError or when pub_date >= cutoff; comparing a datetime without
\* offset to the cutoff, which has one, raises TypeError, which is not caught.
RECURSIVE filter_loop(_, _)
filter_loop(ps, cutoff) ==
    IF ps = <<>> THEN [raised |-> "", result |-> <<>>]
    ELSE LET pub == ParsePublished(Head(ps).published)
             rest == filter_loop(Tail(ps), cutoff)
         IN IF pub.raised = "" /\ ~pub.aware
            THEN [raised |-> "TypeError", result |-> <<>>]
            ELSE IF rest.raised # "" THEN rest
            ELSE IF pub.raised # "" \/ pub.t >= cutoff
            THEN [raised |-> "", result |-> <<Head(ps)>> \o rest.result]
            ELSE rest

\* ArxivFetcher.filter_by_date at clock t: the list returned, or the
\* exception; days <= 0 returns the input.
filter_by_date(ps, days, t) ==
    IF days <= 0 THEN [raised |-> "", result |-> ps]
    ELSE filter_loop(ps, t - days)

\* What the arXiv feed may hold for ArxivFetcher.fetch: any list of catalog
\* papers, or one paper "c" whose published carries no UTC offset.
FetchResults ==
    SeqsUpTo({Paper(id, TitleOf(id), PublishedOf(id)) : id \in Ids}, MaxFetch)
        \cup {<<Paper("c", "T1", NaiveStamp(0))>>}

\* ArxivFetcher.fetch_recent
fetch_recent(raw, t) == filter_by_date(raw, DaysRecent, t)

\* What the agent may list in its marker: ids of candidates and an id that
\* was never a candidate.
AgentSelections == SeqsUpTo(Ids \cup {"zz"}, 2)
InSeq(x, q) == \E i \in 1..Len(q) : q[i] = x

\* The report file the agent leaves at the output path: no file; a file that
\* does not decode as UTF-8; text without the SELECTED_PAPERS comment; a
\* comment whose bracketed text is not JSON (one id in single quotes); a
\* comment holding a JSON list. ids is what the bracketed text lists.
NoReport == [kind |-> "missing", ids |-> <<>>]
Reports ==
    {NoReport, [kind |-> "unreadable", ids |-> <<>>], [kind |-> "no_marker", ids |-> <<>>]}
        \cup {[kind |-> "malformed", ids |-> <<id>>] : id \in Ids}
        \cup {[kind |-> "marker", ids |-> s] : s \in AgentSelections}

\* _extract_selected_ids that reads the ids out of a marker json.loads rejects.
_extract_selected_ids_lenient(rep) ==
    IF rep.kind \in {"marker", "malformed"} THEN rep.ids ELSE <<>>

\* ClaudeRunner._extract_selected_ids
_extract_selected_ids(rep) ==
    IF rep.kind = "marker" THEN rep.ids ELSE <<>>

\* How the agent's launch ends: exit status 0; another exit status;
\* subprocess.TimeoutExpired; FileNotFoundError; any other exception of
\* subprocess.run; prompt_error is _build_prompt or the write of the prompt
\* file raising before the launch.
ClaudeOutcomes ==
    {"ok", "nonzero_exit", "timeout", "not_found", "launch_error", "prompt_error"}
AgentFailures == {"nonzero_exit", "timeout", "not_found", "launch_error"}

\* ClaudeRunner.run that, after a timeout, still reads the report the agent
\* had written and returns (True, ids).
run_timeout_reads_report(outcome, rep) ==
    CASE outcome = "prompt_error" ->
             [raised |-> "OSError", success |-> FALSE, selected_ids |-> <<>>]
      [] outcome \in {"ok", "timeout"} ->
             [raised |-> "", success |-> TRUE, selected_ids |-> _extract_selected_ids(rep)]
      [] OTHER ->
             [raised |-> "", success |-> FALSE, selected_ids |-> <<>>]

\* ClaudeRunner.run: (success, selected_ids), or the exception it lets through.
run(outcome, rep) ==
    CASE outcome = "prompt_error" ->
             [raised |-> "OSError", success |-> FALSE, selected_ids |-> <<>>]
      [] outcome = "ok" ->
             [raised |-> "", success |-> TRUE, selected_ids |-> _extract_selected_ids(rep)]
      [] OTHER ->
             [raised |-> "", success |-> FALSE, selected_ids |-> <<>>]

\* How ArxivFetcher.fetch ends: a response, or requests.RequestException.
FetchOutcomes == {"ok", "RequestException"}

\* fetch that lets the entries it had gathered through on a transport failure.
fetch_partial(raw, outcome) == raw

\* ArxivFetcher.fetch, lines 105-114: a transport failure is printed and
\* returned as the empty list.
fetch(raw, outcome) == IF outcome = "ok" THEN raw ELSE <<>>

\* papers_to_mark built from the reported ids instead of the candidates.
papers_to_mark_reported(unseen, sel) ==
    [i \in 1..Len(sel) |-> [arxiv_id |-> sel[i], title |-> ""]]

\* main, lines 129-135: the unseen papers whose id the agent selected.
RECURSIVE papers_to_mark(_, _)
papers_to_mark(unseen, sel) ==
    IF unseen = <<>> THEN <<>>
    ELSE IF InSeq(Head(unseen).arxiv_id, sel)
         THEN <<[arxiv_id |-> Head(unseen).arxiv_id, title |-> Head(unseen).title]>>
                  \o papers_to_mark(Tail(unseen), sel)
         ELSE papers_to_mark(Tail(unseen), sel)

\* Exit status of a process that ended by an exception or by a kill.
ExitStatus(raised) == IF raised = "killed" THEN 137 ELSE 1

Init ==
    /\ history_file \in InitFiles
    /\ data = EmptyLedger
    /\ retention_days \in {0, RetentionDays}
    /\ now = 0
    /\ pc = "idle"
    /\ lastOp = NoOp
    /\ MainIdle
    /\ call = NoCall

\* main returns c or ends by an exception with status c; marked are the ids
\* the run marked and persisted. The process is still there to be looked at.
EndRun(c, marked) ==
    /\ pc' = "ended"
    /\ exit_code' = c
    /\ prev_marked' = marked
    /\ UNCHANGED <<papers, unseen_papers, selected_ids, dry_run, run_cleanup_at, loaded>>

\* main, line 177: sys.exit(main()); the process and its objects are gone.
RunExit ==
    /\ pc = "ended"
    /\ pc' = "idle"
    /\ data' = EmptyLedger
    /\ papers' = <<>>
    /\ unseen_papers' = <<>>
    /\ selected_ids' = <<>>
    /\ dry_run' = FALSE
    /\ run_cleanup_at' = 0
    /\ loaded' = EmptyLedger
    /\ this_run' = NoRun
    /\ UNCHANGED <<history_file, retention_days, now, lastOp, exit_code,
                   handed_at, prev_marked>>
    /\ UNCHANGED call

\* main, lines 52-59: load_config raises, the run ends before any I/O.
ConfigError ==
    /\ pc = "idle"
    /\ EndRun(1, {})
    /\ UNCHANGED <<history_file, data, retention_days, now, lastOp, handed_at, this_run>>
    /\ UNCHANGED call

\* main, lines 44-74: arguments parsed, configuration loaded, HistoryManager
\* constructed from the ledger file.
RunStart ==
    /\ pc = "idle"
    /\ \E dry \in BOOLEAN : dry_run' = dry
    /\ data' = Load(history_file)
    /\ loaded' = Load(history_file)
    /\ pc' = "init"
    /\ exit_code' = 0 - 1
    /\ this_run' = [NoRun EXCEPT !.started = TRUE, !.file_at_start = history_file]
    /\ UNCHANGED <<history_file, retention_days, now, lastOp, papers, unseen_papers,
                   selected_ids, run_cleanup_at, handed_at, prev_marked>>
    /\ UNCHANGED call

\* main, line 77: history.cleanup_old_entries()
RunCleanup ==
    /\ pc = "init"
    /\ \E o \in SaveOutcomes :
        LET r == cleanup_old_entries(data, history_file, now, retention_days, o)
        IN /\ (r.saves = 0 => o = "ok")
           /\ history_file' = r.file
           /\ data' = r.data
           /\ this_run' = [this_run EXCEPT !.save = IF r.saves > 0 THEN o ELSE "none",
                                           !.saves = r.saves]
           /\ IF r.raised = ""
              THEN /\ pc' = "cleaned"
                   /\ run_cleanup_at' = now
                   /\ UNCHANGED <<papers, unseen_papers, selected_ids, dry_run,
                                  exit_code, loaded, prev_marked>>
              ELSE EndRun(ExitStatus(r.raised), {})
    /\ UNCHANGED <<retention_days, now, lastOp, handed_at>>
    /\ UNCHANGED call

\* main, line 88: fetcher.fetch_recent(query)
RunFetch ==
    /\ pc = "cleaned"
    /\ \E raw \in FetchResults, fo \in FetchOutcomes :
        LET r == fetch_recent(fetch(raw, fo), now)
        IN /\ this_run' = [this_run EXCEPT !.fetch = fo]
           /\ IF r.raised = ""
              THEN /\ papers' = r.result
                   /\ pc' = "fetched"
                   /\ UNCHANGED <<unseen_papers, selected_ids, dry_run, exit_code,
                                  run_cleanup_at, loaded, prev_marked>>
              ELSE EndRun(ExitStatus(r.raised), {})
    /\ UNCHANGED <<history_file, data, retention_days, now, lastOp, handed_at>>
    /\ UNCHANGED call

\* main, lines 91-94: nothing fetched, the run ends with status 0.
RunNoPapers ==
    /\ pc = "fetched"
    /\ papers = <<>>
    /\ EndRun(0, {})
    /\ UNCHANGED <<history_file, data, retention_days, now, lastOp, handed_at, this_run>>
    /\ UNCHANGED call

\* main, line 97: history.filter_unseen(papers)
RunFilter ==
    /\ pc = "fetched"
    /\ papers # <<>>
    /\ IF HasPapers(data)
       THEN /\ unseen_papers' = filter_unseen(data, papers)
            /\ pc' = "filtered"
            /\ UNCHANGED <<papers, selected_ids, dry_run, exit_code,
                           run_cleanup_at, loaded, prev_marked>>
       ELSE EndRun(ExitStatus("KeyError"), {})
    /\ UNCHANGED <<history_file, data, retention_days, now, lastOp, handed_at, this_run>>
    /\ UNCHANGED call

\* main, lines 100-103: every fetched paper was seen, status 0.
RunAllSeen ==
    /\ pc = "filtered"
    /\ unseen_papers = <<>>
    /\ EndRun(0, {})
    /\ UNCHANGED <<history_file, data, retention_days, now, lastOp, handed_at, this_run>>
    /\ UNCHANGED call

\* main, lines 106-112: --dry-run lists the candidates and ends with status 0.
RunDryRun ==
    /\ pc = "filtered"
    /\ unseen_papers # <<>>
    /\ dry_run
    /\ EndRun(0, {})
    /\ UNCHANGED <<history_file, data, retention_days, now, lastOp, handed_at, this_run>>
    /\ UNCHANGED call

\* main, lines 117-118: runner.save_candidates(unseen_papers); the agent is
\* started on them.
RunHandoff ==
    /\ pc = "filtered"
    /\ unseen_papers # <<>>
    /\ ~dry_run
    /\ pc' = "agent"
    /\ UNCHANGED <<history_file, data, retention_days, now, lastOp, papers,
                   unseen_papers, selected_ids, dry_run, exit_code, run_cleanup_at,
                   loaded, handed_at, prev_marked, this_run>>
    /\ UNCHANGED call

\* The ids this run handed to the agent, noted with the run's clock.
NoteHanded ==
    handed_at' = [i \in Ids |-> IF i \in IdsOf(unseen_papers)
                                THEN run_cleanup_at ELSE handed_at[i]]

\* main, lines 120-125: runner.run() reports failure, status 1; or it raises
\* and the traceback ends the process with status 1.
RunAgentFails ==
    /\ pc = "agent"
    /\ \E outcome \in ClaudeOutcomes, rep \in Reports :
        LET r == run(outcome, rep)
        IN /\ r.raised # "" \/ ~r.success
           /\ this_run' = [this_run EXCEPT !.agent = outcome]
    /\ NoteHanded
    /\ EndRun(1, {})
    /\ UNCHANGED <<history_file, data, retention_days, now, lastOp>>
    /\ UNCHANGED call

\* main, line 120: runner.run() reports success and the selected ids.
RunAgentReturns ==
    /\ pc = "agent"
    /\ \E outcome \in ClaudeOutcomes, rep \in Reports :
        LET r == run(outcome, rep)
        IN /\ r.raised = "" /\ r.success
           /\ selected_ids' = r.selected_ids
           /\ this_run' = [this_run EXCEPT !.agent = outcome, !.report = rep]
    /\ NoteHanded
    /\ pc' = "ran"
    /\ UNCHANGED <<history_file, data, retention_days, now, lastOp, papers,
                   unseen_papers, dry_run, exit_code, run_cleanup_at, loaded,
                   prev_marked>>
    /\ UNCHANGED call

\* main, lines 128-173: the selected candidates are marked seen in one
\* mark_multiple_seen call, then the run reports and ends with status 0.
RunMarkSelected ==
    /\ pc = "ran"
    /\ IF selected_ids = <<>>
       THEN /\ EndRun(0, {})
            /\ UNCHANGED <<history_file, data, this_run>>
       ELSE \E o \in SaveOutcomes :
            LET batch == papers_to_mark(unseen_papers, selected_ids)
                r == mark_multiple_seen(data, history_file, batch, now, o)
            IN /\ history_file' = r.file
               /\ data' = r.data
               /\ this_run' = [this_run EXCEPT !.save = o, !.saves = @ + r.saves]
               /\ IF r.raised = ""
                  THEN EndRun(0, IdsOf(batch))
                  ELSE EndRun(ExitStatus(r.raised), {})
    /\ UNCHANGED <<retention_days, now, lastOp, handed_at>>
    /\ UNCHANGED call

Next ==
    \/ ConfigError
    \/ RunStart
    \/ RunCleanup
    \/ RunFetch
    \/ RunNoPapers
    \/ RunFilter
    \/ RunAllSeen
    \/ RunDryRun
    \/ RunHandoff
    \/ RunAgentFails
    \/ RunAgentReturns
    \/ RunMarkSelected
    \/ RunExit
    \/ Tick

Spec == Init /\ [][Next]_vars

\* --------------------------- FnSpec: single calls of the pure functions
\* Papers a caller may hand over: the catalog's "a" (published on day 0) and
\* "b" (a date that does not parse), "c" with a date without UTC offset, "d"
\* published on day 1, "e" whose published is None.
FnIds == Ids \cup {"c", "d", "e"}
FnPublished(id) ==
    CASE id \in Ids -> PublishedOf(id)
      [] id = "c" -> NaiveStamp(0)
      [] id = "d" -> IsoFormat(1)
      [] OTHER -> NoneStamp
FnPapers == SeqsUpTo({Paper(id, TitleOf(id), FnPublished(id)) : id \in FnIds}, MaxLen + 1)
\* The days argument: negative, zero, one day, the configured window.
DayChoices == {0 - 1, 0, 1, DaysRecent}

FilterCalls ==
    {[NoCall EXCEPT !.op = "filter_by_date", !.state = "pending",
                    !.papers = ps, !.days = d] : ps \in FnPapers, d \in DayChoices}

\* main, lines 88-97, as the selection pipeline: fetch_recent's local
\* recency check on what fetch returned, main's return on an empty list, then
\* history.filter_unseen; the list of unseen recent papers or the exception.
select(d, raw, days, t) ==
    LET r == filter_by_date(raw, days, t)
    IN IF r.raised # "" THEN [raised |-> r.raised, result |-> <<>>]
       ELSE IF r.result = <<>> THEN [raised |-> "", result |-> <<>>]
       ELSE IF ~HasPapers(d) THEN [raised |-> "KeyError", result |-> <<>>]
       ELSE [raised |-> "", result |-> filter_unseen(d, r.result)]

SelectCalls ==
    {[NoCall EXCEPT !.op = "select", !.state = "pending",
                    !.papers = ps, !.days = DaysRecent] : ps \in FnPapers}

\* Five fetched papers on day 10 under a 7-day window: p1 and p4 were
\* published 10 days ago, p2, p3 and p5 inside the window, and the ledger
\* holds p3.
ExampleFetch ==
    <<Paper("p1", "T1", IsoFormat(0)), Paper("p2", "T2", IsoFormat(9)),
      Paper("p3", "T1", IsoFormat(8)), Paper("p4", "T2", IsoFormat(0)),
      Paper("p5", "T1", IsoFormat(10))>>
ExampleCall ==
    [NoCall EXCEPT !.op = "select", !.state = "pending", !.papers = ExampleFetch, !.days = 7]
ExampleFile == LedgerFile(Put(EmptyPapers, "p3", Entry("T1", IsoFormat(9))), IsoFormat(9))

\* Text is a sequence of pieces; str.join on a list of texts.
RECURSIVE Join(_, _)
Join(parts, sep) ==
    IF parts = <<>> THEN <<>>
    ELSE IF Len(parts) = 1 THEN parts[1]
    ELSE parts[1] \o sep \o Join(Tail(parts), sep)

\* get_arxiv_query, lines 131-140: the ti: and abs: terms of the keywords,
\* in double quotes when " " in kw.
RECURSIVE kw_parts(_)
kw_parts(keywords) ==
    IF keywords = <<>> THEN <<>>
    ELSE LET kw == Head(keywords)
         IN (IF InSeq(" ", kw)
             THEN << <<"ti:", "\"">> \o kw \o <<"\"">>, <<"abs:", "\"">> \o kw \o <<"\"">> >>
             ELSE << <<"ti:">> \o kw, <<"abs:">> \o kw >>)
                \o kw_parts(Tail(keywords))

\* config_loader.get_arxiv_query on interests.categories, interests.keywords
get_arxiv_query(categories, keywords) ==
    LET cat_query == Join([i \in 1..Len(categories) |-> <<"cat:", categories[i]>>], <<" OR ">>)
        query_parts ==
            (IF categories # <<>> THEN << <<"(">> \o cat_query \o <<")">> >> ELSE <<>>)
                \o (IF keywords # <<>>
                    THEN << <<"(">> \o Join(kw_parts(keywords), <<" OR ">>) \o <<")">> >>
                    ELSE <<>>)
    IN IF Len(query_parts) > 1 THEN Join(query_parts, <<" AND ">>)
       ELSE IF query_parts # <<>> THEN query_parts[1]
       ELSE <<"cat:", "cs.LG">>

\* interests.categories and interests.keywords of the configuration: arXiv
\* categories; the keywords "llm", "large language model" and a keyword
\* whose two words a tab separates.
Categories == {"cs.LG", "cs.AI"}
Keywords ==
    {<<"llm">>, <<"large", " ", "language", " ", "model">>, <<"graph", "\t", "neural">>}
QueryCalls ==
    {[NoCall EXCEPT !.op = "get_arxiv_query", !.state = "pending",
                    !.categories = cs, !.keywords = ks] :
        cs \in SeqsUpTo(Categories, MaxLen), ks \in SeqsUpTo(Keywords, MaxLen)}

FnCalls == FilterCalls \cup SelectCalls \cup QueryCalls

\* A HistoryManager has been constructed over some ledger file, the clock
\* stands anywhere, and one call is about to be made.
FnInit ==
    /\ \/ /\ history_file \in InitFiles
          /\ now \in 0..MaxTime
          /\ call \in FnCalls
       \/ /\ history_file = ExampleFile
          /\ now = 10
          /\ call = ExampleCall
    /\ data = Load(history_file)
    /\ retention_days = 0
    /\ pc = "ready"
    /\ lastOp = NoOp
    /\ MainIdle

\* fetcher.filter_by_date(papers, days)
CallFilterByDate ==
    /\ call.op = "filter_by_date"
    /\ call.state = "pending"
    /\ LET r == filter_by_date(call.papers, call.days, now)
       IN call' = [call EXCEPT !.state = "done", !.result = r.result, !.raised = r.raised]
    /\ UNCHANGED <<history_file, data, retention_days, now, pc, lastOp, mainVars>>

\* papers = fetcher.fetch_recent(query); unseen_papers = history.filter_unseen(papers)
CallSelect ==
    /\ call.op = "select"
    /\ call.state = "pending"
    /\ LET r == select(data, call.papers, call.days, now)
       IN call' = [call EXCEPT !.state = "done", !.result = r.result, !.raised = r.raised]
    /\ UNCHANGED <<history_file, data, retention_days, now, pc, lastOp, mainVars>>

\* query = get_arxiv_query(config)
CallGetArxivQuery ==
    /\ call.op = "get_arxiv_query"
    /\ call.state = "pending"
    /\ call' = [call EXCEPT !.state = "done",
                            !.result = get_arxiv_query(call.categories, call.keywords)]
    /\ UNCHANGED <<history_file, data, retention_days, now, pc, lastOp, mainVars>>

FnNext ==
    \/ CallFilterByDate
    \/ CallSelect
    \/ CallGetArxivQuery

FnSpec == FnInit /\ [][FnNext]_vars

\* ---------------------------------------------- claims on the pipeline
\* True when the ledger led holds id with a seen_at that a cleanup at clock t
\* under retention r keeps.
HeldWithinRetention(led, id, t, r) ==
    /\ id \in DOMAIN led.papers
    /\ \/ r <= 0
       \/ led.papers[id].seen_at.kind # "iso"
       \/ t - led.papers[id].seen_at.t <= r

\* C1 (as claimed): an id handed to the agent by an earlier run is not handed
\* to the agent again by a run starting within retention_days of that run.
C1_HandedToAgentAtMostOnce ==
    pc = "agent" =>
        \A id \in IdsOf(unseen_papers) :
            \/ handed_at[id] < 0
            \/ retention_days > 0 /\ run_cleanup_at - handed_at[id] > retention_days

\* C1 (amended): a run never hands the agent an id that the ledger file it
\* loaded holds, as selected and marked by an earlier run, with a seen_at
\* within retention_days of the run's cleanup (any seen_at when retention is
\* disabled).
C1_MarkedNotHandedAgainWithinRetention ==
    pc = "agent" =>
        \A id \in IdsOf(unseen_papers) :
            ~HeldWithinRetention(loaded, id, run_cleanup_at, retention_days)

\* C1 witness: the agent is handed candidates while a fetched paper is held
\* back because an earlier run of the model marked it, exactly retention_days
\* before this run's cleanup.
C1_Witness ==
    /\ pc = "agent"
    /\ retention_days > 0
    /\ \E id \in IdsOf(papers) \ IdsOf(unseen_papers) :
        /\ handed_at[id] >= 0
        /\ id \in DOMAIN loaded.papers
        /\ loaded.papers[id].seen_at = IsoFormat(run_cleanup_at - retention_days)
        /\ loaded.papers[id].seen_at.t > 0

\* C2 (as claimed): an id the previous run marked and persisted is never in
\* the result of this run's filter_unseen.
C2_MarkedNeverReturnedNextRun ==
    pc = "filtered" => prev_marked \cap IdsOf(unseen_papers) = {}

\* C2 (amended): an id the previous run marked and persisted is in the result
\* of this run's filter_unseen only if this run loaded it from the file and
\* its cleanup removed it as seen more than retention_days before.
C2_MarkedReturnedNextRunOnlyIfExpired ==
    pc = "filtered" =>
        \A id \in prev_marked \cap IdsOf(unseen_papers) :
            /\ id \in DOMAIN loaded.papers
            /\ loaded.papers[id].seen_at.kind = "iso"
            /\ retention_days > 0
            /\ loaded.papers[id].seen_at.t < run_cleanup_at - retention_days

\* C2 witness: the fetch returned a paper the previous run marked, and
\* filter_unseen dropped it.
C2_Witness ==
    /\ pc = "filtered"
    /\ \E id \in prev_marked : id \in IdsOf(papers) /\ id \notin IdsOf(unseen_papers)

\* ------------------------------------------------- claims on the ledger
Returned(op) == lastOp.op = op /\ lastOp.raised = ""

\* C3 (as claimed): when the process is killed inside a mutating call, a fresh
\* load of the ledger file still holds every id the file held before the call.
C3_CrashKeepsStoredEntries ==
    lastOp.raised = "killed" =>
        \A id \in DOMAIN lastOp.fileBefore.papers :
            id \in DOMAIN Load(history_file).papers

\* C4: after mark_seen(id, title) has returned, however often it was called
\* on that id before, is_seen(id) is true, filter_unseen drops every paper
\* with that id, and the ledger holds one entry for the id, with the title of
\* this last call, beside the entries it held for the other ids.
C4_MarkSeenIdempotentUpsert ==
    Returned("mark_seen") =>
        LET before == lastOp.dataBefore.papers
        IN /\ is_seen(data, lastOp.id)
           /\ \A ps \in ClientPapers : lastOp.id \notin IdsOf(filter_unseen(data, ps))
           /\ DOMAIN data.papers = (DOMAIN before) \cup {lastOp.id}
           /\ Cardinality(DOMAIN data.papers) =
                  Cardinality(DOMAIN before) + (IF lastOp.id \in DOMAIN before THEN 0 ELSE 1)
           /\ data.papers[lastOp.id].title = lastOp.title
           /\ data.papers[lastOp.id].seen_at = IsoFormat(lastOp.at)

\* C4 witness: mark_seen returned on an id that an earlier mark_seen had
\* entered at another time under another title.
C4_Witness ==
    /\ Returned("mark_seen")
    /\ lastOp.id \in DOMAIN lastOp.dataBefore.papers
    /\ lastOp.dataBefore.papers[lastOp.id].title # lastOp.title
    /\ lastOp.dataBefore.papers[lastOp.id].seen_at.kind = "iso"
    /\ lastOp.dataBefore.papers[lastOp.id].seen_at.t < lastOp.at

C6_CleanupRemovesExactlyExpired ==
    (Returned("cleanup_old_entries") /\ retention_days > 0) =>
        LET before == lastOp.dataBefore.papers
            cutoff == lastOp.at - retention_days
        IN /\ \A id \in DOMAIN before :
                  before[id].seen_at.kind = "iso" =>
                      IF before[id].seen_at.t < cutoff
                      THEN id \notin DOMAIN data.papers
                      ELSE id \in DOMAIN data.papers /\ data.papers[id] = before[id]
           /\ lastOp.ret = Cardinality((DOMAIN before) \ DOMAIN data.papers)

\* C6 witness: one call removed an entry seen retention_days + 1 days before
\* and kept an entry seen exactly retention_days days before.
C6_Witness ==
    /\ Returned("cleanup_old_entries")
    /\ retention_days > 0
    /\ \E x, y \in DOMAIN lastOp.dataBefore.papers :
        /\ lastOp.dataBefore.papers[x].seen_at = IsoFormat(lastOp.at - retention_days - 1)
        /\ lastOp.dataBefore.papers[y].seen_at = IsoFormat(lastOp.at - retention_days)
        /\ x \notin DOMAIN data.papers
        /\ y \in DOMAIN data.papers
    /\ lastOp.ret = 1

\* C7: a cleanup_old_entries that returned removed an entry only if
\* retention_days > 0 and the entry's seen_at parses to an instant before the
\* cutoff; under retention_days <= 0 the call returns 0 and leaves the ledger
\* and the file as they were; an entry whose seen_at is missing or does not
\* parse is still there, unchanged.
C7_CleanupRemovesOnlyParsedExpired ==
    lastOp.op = "cleanup_old_entries" =>
        LET before == lastOp.dataBefore.papers
            cutoff == lastOp.at - retention_days
        IN /\ retention_days <= 0 =>
                  /\ lastOp.raised = ""
                  /\ lastOp.ret = 0
                  /\ lastOp.saves = 0
                  /\ data = lastOp.dataBefore
                  /\ history_file = lastOp.fileBefore
           /\ lastOp.raised = "" =>
                  \A id \in DOMAIN before :
                      \/ id \in DOMAIN data.papers /\ data.papers[id] = before[id]
                      \/ /\ retention_days > 0
                         /\ FromIsoFormat(before[id].seen_at).raised = ""
                         /\ FromIsoFormat(before[id].seen_at).t < cutoff

\* C7 witness: a call under retention_days > 0, late enough to remove any
\* parsable entry of the file, returned over a ledger holding an entry with
\* an unparsable and an entry with a missing seen_at.
C7_Witness ==
    /\ Returned("cleanup_old_entries")
    /\ retention_days > 0
    /\ lastOp.at - retention_days > 0
    /\ \E x, y \in DOMAIN lastOp.dataBefore.papers :
        /\ lastOp.dataBefore.papers[x].seen_at = BadStamp
        /\ lastOp.dataBefore.papers[y].seen_at = MissingStamp
        /\ {x, y} \subseteq DOMAIN data.papers

\* C8: a cleanup_old_entries that returned wrote the file if and only if it
\* removed an entry; when it removed none the file, last_updated included,
\* is as it was.
C8_CleanupWritesIffRemoved ==
    Returned("cleanup_old_entries") =>
        /\ lastOp.saves = (IF lastOp.ret > 0 THEN 1 ELSE 0)
        /\ lastOp.ret = 0 => history_file = lastOp.fileBefore
        /\ lastOp.ret > 0 => history_file = JsonDump(data)
        /\ lastOp.ret > 0 => history_file.last_updated = IsoFormat(lastOp.at)

\* C8 witness: a call under retention_days > 0 removed nothing from a
\* non-empty ledger whose file was last written on an earlier day.
C8_Witness ==
    /\ Returned("cleanup_old_entries")
    /\ retention_days > 0
    /\ lastOp.ret = 0
    /\ DOMAIN lastOp.dataBefore.papers # {}
    /\ history_file.last_updated.kind = "iso"
    /\ history_file.last_updated.t < lastOp.at

\* C9: filter_unseen returns the papers of its input whose id is not in the
\* ledger, in input order with repetitions kept, and changes neither the
\* in-memory ledger nor the file.
C9_FilterUnseenStableSubsequence ==
    Returned("filter_unseen") =>
        /\ lastOp.result =
              SelectSeq(lastOp.input, LAMBDA p : p.arxiv_id \notin DOMAIN lastOp.dataBefore.papers)
        /\ data = lastOp.dataBefore
        /\ history_file = lastOp.fileBefore

\* C9 witness: of three input papers, the first and third the same, the
\* middle one is in the ledger and the two others come back in order.
C9_Witness ==
    /\ Returned("filter_unseen")
    /\ Len(lastOp.input) = 3
    /\ lastOp.input[1] = lastOp.input[3]
    /\ lastOp.input[2].arxiv_id \in DOMAIN data.papers
    /\ lastOp.result = <<lastOp.input[1], lastOp.input[3]>>

\* C10 (as claimed): loading a missing or malformed file yields the empty
\* ledger, and no later ledger call fails for want of the id-to-entry mapping.
C10_ReadFailureYieldsEmptyLedger ==
    /\ (lastOp.op = "construct" /\ lastOp.fileBefore.kind # "ledger") => data = EmptyLedger
    /\ lastOp.raised # "KeyError"

\* ------------------------------------------ claims on how a run ends
\* C11: a _save that fails raises out of the ledger operation that called
\* it (the cleanup_old_entries and the mark_multiple_seen main is about to
\* call, and a mark_seen of any id on the same ledger), and a run of main in
\* which a ledger write failed ends with a status other than 0.
C11_WriteFailureSurfaces ==
    /\ pc = "init" =>
           \A o \in {"open_error", "write_error"} :
               LET r == cleanup_old_entries(data, history_file, now, retention_days, o)
               IN r.saves > 0 => r.raised = "OSError"
    /\ pc = "ran" =>
           \A o \in {"open_error", "write_error"} :
               /\ mark_multiple_seen(data, history_file,
                                     papers_to_mark(unseen_papers, selected_ids),
                                     now, o).raised = "OSError"
               /\ \A id \in Ids :
                      mark_seen(data, history_file, id, TitleOf(id), now, o).raised = "OSError"
    /\ (pc = "ended" /\ this_run.save \notin {"none", "ok"}) => exit_code > 0

\* C11 witness: the agent succeeded and selected a candidate, the write of
\* mark_multiple_seen failed after truncating the file, the run ended with 1.
C11_Witness ==
    /\ pc = "ended"
    /\ this_run.agent = "ok"
    /\ papers_to_mark(unseen_papers, selected_ids) # <<>>
    /\ this_run.save = "write_error"
    /\ history_file = TornFile
    /\ exit_code = 1

\* C12: a run whose agent failed (exit status other than 0, timeout, missing
\* executable, other launch error) ends with a status other than 0 and marks
\* no paper: no candidate is in the in-memory ledger, the file holds no id
\* the run had not loaded, and the ledger the next run will load holds none
\* of the failed run's candidates.
C12_AgentFailureMarksNothing ==
    (pc = "ended" /\ this_run.agent \in AgentFailures) =>
        /\ exit_code = 1
        /\ prev_marked = {}
        /\ IdsOf(unseen_papers) # {}
        /\ IdsOf(unseen_papers) \cap DOMAIN data.papers = {}
        /\ IdsOf(unseen_papers) \cap DOMAIN Load(history_file).papers = {}
        /\ DOMAIN Load(history_file).papers \subseteq DOMAIN loaded.papers

\* C12 witness: the agent was handed two candidates over a ledger file
\* that holds an entry and timed out; the run ended with 1.
C12_Witness ==
    /\ pc = "ended"
    /\ this_run.agent = "timeout"
    /\ Len(unseen_papers) >= 2
    /\ DOMAIN Load(history_file).papers # {}
    /\ exit_code = 1

\* C13 (as claimed): a run whose fetch failed has no candidates, ends with
\* status 0 without starting the agent, and its ledger, in memory and on
\* file, is at the end what it was at the start of the run.
C13_FetchFailureLeavesLedgerAsAtStart ==
    (pc = "ended" /\ this_run.fetch = "RequestException") =>
        /\ papers = <<>>
        /\ exit_code = 0
        /\ this_run.agent = "none"
        /\ data = loaded
        /\ history_file = this_run.file_at_start

\* C13 (amended): a run whose fetch failed has no candidates, ends with status
\* 0 without starting the agent, and its ledger is at the end the ledger of
\* the start less the entries seen more than retention_days before the run's
\* cleanup; the file is the file of the start when no entry was removed, and
\* the snapshot the cleanup wrote otherwise.
C13_FetchFailureLeavesLedgerAsCleaned ==
    (pc = "ended" /\ this_run.fetch = "RequestException") =>
        LET expired == {id \in DOMAIN loaded.papers :
                           /\ retention_days > 0
                           /\ loaded.papers[id].seen_at.kind = "iso"
                           /\ loaded.papers[id].seen_at.t < run_cleanup_at - retention_days}
        IN /\ papers = <<>>
           /\ exit_code = 0
           /\ this_run.agent = "none"
           /\ data.papers = Without(loaded.papers, expired)
           /\ expired = {} => data = loaded /\ history_file = this_run.file_at_start
           /\ expired # {} =>
                  /\ data.last_updated = IsoFormat(run_cleanup_at)
                  /\ history_file = JsonDump(data)

\* C13 witness: the fetch failed in a run whose cleanup had removed an entry
\* and rewritten the file; the run ended with 0.
C13_Witness ==
    /\ pc = "ended"
    /\ this_run.fetch = "RequestException"
    /\ exit_code = 0
    /\ DOMAIN loaded.papers \ DOMAIN data.papers # {}
    /\ history_file # this_run.file_at_start

\* C16: when the agent ended with status 0 and its report is missing,
\* unreadable, without the marker or with a marker that is not JSON, the
\* selection is empty and the run ends with status 0, having added no entry
\* to the ledger and written the file in no step after its cleanup.
C16_NoMarkerMeansNothingSelected ==
    (pc \in {"ran", "ended"} /\ this_run.agent = "ok" /\ this_run.report.kind # "marker") =>
        /\ selected_ids = <<>>
        /\ pc = "ended" =>
               /\ exit_code = 0
               /\ prev_marked = {}
               /\ \A id \in DOMAIN data.papers :
                      id \in DOMAIN loaded.papers /\ data.papers[id] = loaded.papers[id]
               /\ DOMAIN Load(history_file).papers = DOMAIN data.papers
               /\ this_run.saves = (IF DOMAIN data.papers = DOMAIN loaded.papers THEN 0 ELSE 1)
               /\ this_run.saves = 0 => history_file = this_run.file_at_start

\* C16 witness: the agent was handed candidates over a ledger that holds an
\* entry, ended with status 0 and left a report without the marker; the run
\* ended with 0.
C16_Witness ==
    /\ pc = "ended"
    /\ this_run.agent = "ok"
    /\ this_run.report.kind = "no_marker"
    /\ unseen_papers # <<>>
    /\ DOMAIN data.papers # {}
    /\ exit_code = 0

\* Ids whose entry in the ledger led is not the entry this run loaded.
MarkedIn(led) ==
    {id \in DOMAIN led.papers :
        id \notin DOMAIN loaded.papers \/ led.papers[id] # loaded.papers[id]}

\* C18: at the end of any run the ids the run marked in its ledger are the
\* candidates that are among the selected ids; the file holds as marked the
\* same ids when the run ended with status 0 and none otherwise; an
\* unselected candidate is in neither, and a dry run marks nothing.
C18_MarkedIsCandidatesSelected ==
    (pc = "ended" /\ this_run.started) =>
        LET cand == IdsOf(unseen_papers)
            sel == {selected_ids[i] : i \in 1..Len(selected_ids)}
        IN /\ MarkedIn(data) = cand \cap sel
           /\ MarkedIn(Load(history_file)) = (IF exit_code = 0 THEN cand \cap sel ELSE {})
           /\ prev_marked = MarkedIn(Load(history_file))
           /\ (cand \ sel) \cap (DOMAIN data.papers \cup DOMAIN Load(history_file).papers) = {}
           /\ dry_run => MarkedIn(data) = {} /\ MarkedIn(Load(history_file)) = {}

\* C18 witness: both catalog papers were candidates, the agent reported one
\* of them and an id that was no candidate, and the run ended with 0.
C18_Witness ==
    /\ pc = "ended"
    /\ exit_code = 0
    /\ IdsOf(unseen_papers) = {"a", "b"}
    /\ selected_ids = <<"zz", "b">>
    /\ DOMAIN Load(history_file).papers = {"b"}

\* ------------------------------------ claims on the pure functions
\* C14 (as claimed): filter_by_date(papers, days) returns; with days > 0 it
\* returns, in input order, the papers whose published does not parse or
\* parses to a time not before now - days; with days <= 0 it returns papers.
C14_FilterByDateKeepsRecentOrUnparsable ==
    (call.op = "filter_by_date" /\ call.state = "done") =>
        /\ call.raised = ""
        /\ call.result =
              IF call.days <= 0 THEN call.papers
              ELSE SelectSeq(call.papers,
                             LAMBDA p : \/ p.published.kind \notin {"iso", "naive"}
                                        \/ p.published.t >= now - call.days)

\* C15 (as claimed): the selection pipeline returns, in fetch order, the
\* fetched papers whose published is inside the window or does not parse and
\* whose id is not in the ledger; of the five papers of the example it
\* returns p2 and p5.
C15_SelectReturnsUnseenRecentInOrder ==
    (call.op = "select" /\ call.state = "done") =>
        /\ call.raised = ""
        /\ call.result =
              SelectSeq(call.papers,
                        LAMBDA p : /\ \/ p.published.kind \notin {"iso", "naive"}
                                      \/ p.published.t >= now - call.days
                                   /\ p.arxiv_id \notin DOMAIN data.papers)
        /\ call.papers = ExampleFetch => call.result = <<ExampleFetch[2], ExampleFetch[5]>>

\* The terms the claim gives a keyword: ti: and abs:, the keyword in double
\* quotes when it contains whitespace.
ClaimedTerms(kw) ==
    IF \E i \in 1..Len(kw) : kw[i] \in {" ", "\t"}
    THEN << <<"ti:", "\"">> \o kw \o <<"\"">>, <<"abs:", "\"">> \o kw \o <<"\"">> >>
    ELSE << <<"ti:">> \o kw, <<"abs:">> \o kw >>

RECURSIVE ClaimedDisjunction(_)
ClaimedDisjunction(terms) ==
    IF Len(terms) = 1 THEN terms[1]
    ELSE terms[1] \o <<" OR ">> \o ClaimedDisjunction(Tail(terms))

RECURSIVE ClaimedKeywordTerms(_)
ClaimedKeywordTerms(keywords) ==
    IF keywords = <<>> THEN <<>>
    ELSE ClaimedTerms(Head(keywords)) \o ClaimedKeywordTerms(Tail(keywords))

\* C17 (as claimed): get_arxiv_query returns the parenthesized disjunction of
\* the cat: terms for categories alone, the parenthesized disjunction of the
\* ti: and abs: terms for keywords alone, a keyword with whitespace quoted,
\* the two groups joined by AND when both are given, and cat:cs.LG when
\* neither is; never the empty text.
C17_QueryComposedAsSpecified ==
    (call.op = "get_arxiv_query" /\ call.state = "done") =>
        LET cats == call.categories
            kws == call.keywords
            cat_group == <<"(">> \o ClaimedDisjunction([i \in 1..Len(cats) |-> <<"cat:", cats[i]>>])
                             \o <<")">>
            kw_group == <<"(">> \o ClaimedDisjunction(ClaimedKeywordTerms(kws)) \o <<")">>
        IN /\ call.result # <<>>
           /\ call.result =
                 CASE cats # <<>> /\ kws = <<>> -> cat_group
                   [] cats = <<>> /\ kws # <<>> -> kw_group
                   [] cats # <<>> /\ kws # <<>> -> cat_group \o <<" AND ">> \o kw_group
                   [] OTHER -> <<"cat:", "cs.LG">>
           /\ (cats = <<"cs.LG">> /\ kws = <<>>) => call.result = <<"(", "cat:", "cs.LG", ")">>

====
